---- MODULE Spec2Model ----
(***************************************************************************)
(* Ingestion pipeline of bsky_multitool: the historical paginator          *)
(* (historical_query.py), the live stream consumer (stream.py), the retry  *)
(* executors and the batching sink (utils.py) and the CLI wrappers         *)
(* (__main__.py).                                                          *)
(*                                                                         *)
(* Each component has its own specification (SpecHist, SpecStream, ...)    *)
(* over the variables it owns; the variables of the other components keep  *)
(* their initial values.                                                   *)
(*                                                                         *)
(* Conventions.  Python's None is modelled by 0 (every integer the code    *)
(* tests for truth - max_items, cursor, since, until - is falsy at 0 as    *)
(* well).  A record is identified by its index in the server's result      *)
(* order (newest first); its uri is that index.  The keyword arguments     *)
(* link_filter (callers) and has_link (master_filter) name the same        *)
(* parameter.                                                              *)
(***************************************************************************)
EXTENDS Integers, Sequences, FiniteSets, TLC

\* ------------------------------------------------------------------ bounds
NRec      == 3    \* records held by the search service
MaxBatch  == 2    \* batch_size is at most MaxBatch
MaxOps    == 2    \* operations in one firehose frame
MaxFrames == 2    \* frames the firehose delivers
MaxCalls  == 4    \* records handed to the sink in the sink's own specification
NKeys     == 3    \* distinct dids / uris looked up through the cache
LruMaxsize == 2   \* entries an lru_cache holds (maxsize=1024 in the source)

None      == 0
PageLimit == 100

\* historicalQuery._retry defaults (lines 63-65) and utils.retry (lines 124-125, 136)
HqRetries    == 5
HqDelay      == 5
HqBackoff    == 2
UtilRetries  == 5
UtilDelay    == 1
UtilBackoff  == 2

Min(a, b) == IF a <= b THEN a ELSE b

RECURSIVE Flatten(_)
Flatten(ss) == IF ss = <<>> THEN <<>> ELSE Head(ss) \o Flatten(Tail(ss))

Range(s) == {s[i] : i \in 1..Len(s)}

\* ------------------------------------------------------------------ state
VARIABLES
    \* the search service (environment)
    createdAt,        \* record -> record['created_at']
    hasLink,          \* record -> the record carries an external link
    srvPage,          \* most records the service puts on one page
    srvCap,           \* results reachable by cursor for one query text
    untilIncl,        \* the service treats the until: qualifier as inclusive
    \* arguments of query() / construction of historicalQuery
    is_from_cli, max_items, since, until, batch_size,
    cutoff,           \* start()'s cutoff_time argument, as a time (None: not given)
    filter_valid,     \* the filter_term argument compiles as a pattern
    type_valid,       \* the type_filter argument names valid action types only
    \* historicalQuery.query locals and instance state
    pc, again, since_formatted, until_formatted, cursor, stop, limit,
    unique_uris, results, item, resp, idx, item_counter,
    looked_up,        \* filter verdicts of the records handed to enrichment
                      \* so far (observation only)
    ev,               \* what the last step of query() did (observation only)
    \* batch sink (dump_to_file) and its caller's dump_kwargs
    queue, written, file_format,
    enq,              \* records dump_to_file took in so far (observation only)
    call,             \* arguments of the last dump_to_file call (observation only)
    \* firehoseStreamer.start / on_message
    st, ops, nframes, seqno, cutoff_time, stop_calls,
    clock_past,       \* the wall clock has reached cutoff_time
    escaped,          \* exceptions that left on_message on a frame that did not decode
    \* the retry executors: historicalQuery._retry and utils.retry
    r_fn,             \* "_retry" or "retry"
    r_max,            \* _retry's retries argument
    r_pc, attempt, retries, delay,
    fn,               \* what the wrapped function does on its n-th call
    calls,            \* how many times it has been called
    sleeps,           \* un-jittered delay of each sleep
    slept,            \* percent of that delay actually slept (jitter)
    outcome, value,
    \* finalize_item_processing / get_target_data on one record
    e_pc,
    action_type,      \* item['action_type']
    ref_uri,          \* the uri at the type's place in the record: "none",
                      \* "did" (its authority is a DID) or "handle"
    own_fetch,        \* the record's own author and post lookups: "ok", "error"
    target_post,      \* get_post_data_fn(target_uri): "found", "empty", "error"
    target_author,    \* get_author_data_fn(target_did): "ok", "error"
    target_data,      \* item['target_data']: "unset", "null", "data"
    e_result,         \* "none", "enriched", "raised"
    \* make_cached_fetchers and the lru_cache wrapped around its fetchers
    profile_cache,    \* did -> what get_author_data returned
    post_cache,       \* uri -> what get_post_data returned
    lru_author,       \* keys held by lru_cache(get_author_data_cached),
                      \* least recently used first
    lru_post,         \* the same for get_post_data_cached
    fetches,          \* answers the remote service gave, per fetcher and key
    last_lookup,      \* how the last lookup was served (observation only)
    \* one item of on_message, its classification and the filter's verdict
    collection,       \* uri.collection
    action,           \* op.action
    record,           \* record_dict: embed (py_type or "none"), reply, text
                      \* (as words), facet_link (a facet carries an http uri)
    item_type,        \* what get_type returned: "unset" before the call
    first_call,       \* arguments and result of the first get_type call
    other_between,    \* another input was classified after the first call
    filter_term,      \* the compiled pattern, as the word it looks for;
                      \* NoPattern when None
    type_filter,      \* the list of action types; NoTypes when None
    link_filter,      \* "None", "False" or "True"
    passes            \* master_filter's result: "unset", "accept", "reject"

srvVars  == <<createdAt, hasLink, srvPage, srvCap, untilIncl>>
argVars  == <<is_from_cli, max_items, since, until, batch_size, cutoff,
              filter_valid, type_valid>>
histVars == <<pc, again, since_formatted, until_formatted, cursor, stop, limit,
              unique_uris, item, resp, idx, ev>>
outVars  == <<results, item_counter, looked_up>>
sinkVars == <<queue, written, file_format, enq, call>>
strmVars == <<st, ops, nframes, seqno, cutoff_time, stop_calls, clock_past,
              escaped>>
rtryVars == <<r_fn, r_max, r_pc, attempt, retries, delay, fn, calls, sleeps,
              slept, outcome, value>>
cacheVars == <<profile_cache, post_cache, lru_author, lru_post, fetches,
               last_lookup>>
itemVars == <<collection, action, record, item_type, first_call,
              other_between, filter_term, type_filter, link_filter, passes>>
enrVars  == <<e_pc, action_type, ref_uri, own_fetch, target_post,
              target_author, target_data, e_result, cacheVars, itemVars>>
vars     == <<srvVars, argVars, histVars, outVars, sinkVars, strmVars, rtryVars,
              enrVars>>

Recs  == 1..NRec
Times == 1..NRec

\* ------------------------------------------------------- search service
\* The service lists its records newest first; neighbours share a timestamp or
\* are one tick apart, the oldest record is at time 1.
Timelines ==
    {f \in [Recs -> Times] :
        /\ f[NRec] = 1
        /\ \A i \in 1..(NRec - 1) : f[i] - f[i + 1] \in {0, 1}}

\* since / until as the caller may give them: absent, or a time in the past.
TimeArgs == {None, 1, 2}

\* Records matching the query text and its since:/until: qualifiers, newest
\* first.  since: is a lower bound (inclusive); until: is an upper bound whose
\* inclusiveness is the service's choice.
InWindow(r, q) ==
    /\ (q.since = None \/ createdAt[r] >= q.since)
    /\ (q.until = None \/ createdAt[r] < q.until
                       \/ (untilIncl /\ createdAt[r] = q.until))

Matching(q) == {r \in Recs : InWindow(r, q)}

RECURSIVE SortedSeq(_)
SortedSeq(S) ==
    IF S = {} THEN <<>>
    ELSE LET m == CHOOSE x \in S : \A y \in S : x <= y
         IN  <<m>> \o SortedSeq(S \ {m})

\* search(query_text, cursor, page_size) -> (records, next_cursor): the page
\* after the cursor, of at most page_size (and srvPage) records; the cursor is
\* omitted once the reachable window (srvCap) or the result list is exhausted.
search_posts(params) ==
    LET M    == SortedSeq(Matching(params.q))
        o    == params.cursor
        top  == Min(srvCap, Len(M))
        hi   == Min(o + Min(params.limit, srvPage), top)
    IN  [posts  |-> SubSeq(M, o + 1, hi),
         cursor |-> IF hi < top THEN hi ELSE None]

\* ------------------------------------------------------------- filter
\* master_filter as query() calls it: no text pattern, no type set; the link
\* flag is tested with `is not None`, so False constrains like True.
master_filter_hist(r) ==
    hasLink[r]

\* ------------------------------------------------------------- sink
\* A variant of the flush test that waits for the queue to exceed batch_size.
flush_due_past_batch(q, final_flush) ==
    Len(q) > batch_size \/ (final_flush /\ Len(q) > 0)

\* Line 446: the flush test of the json branch.
flush_due(q, final_flush) ==
    Len(q) >= batch_size \/ (final_flush /\ Len(q) > 0)

\* A variant that counts every call, with or without a record.
count_every_call(it) ==
    item_counter + 1

\* Lines 442-444: a record, and only a record, is counted.
count_after(it) ==
    IF it # None THEN item_counter + 1 ELSE item_counter

\* dump_to_file, lines 431-480.  json: append and count a record, then flush
\* the whole queue into one file when due.  jsonl / csv: write the record's
\* line and count it; without a record these branches raise at their first
\* use of item_structured, before anything is written or counted.
dump_to_file(it, final_flush) ==
    /\ call' = [it |-> it, final_flush |-> final_flush]
    /\ UNCHANGED file_format
    /\ IF file_format = "json"
       THEN LET q1 == IF it # None THEN Append(queue, it) ELSE queue
            IN  /\ item_counter' = count_after(it)
                /\ enq' = IF it # None THEN Append(enq, it) ELSE enq
                /\ IF flush_due(q1, final_flush)
                   THEN /\ written' = Append(written, q1)
                        /\ queue'   = <<>>
                   ELSE /\ written' = written
                        /\ queue'   = q1
       ELSE IF it # None
       THEN /\ written' = Append(written, <<it>>)
            /\ item_counter' = item_counter + 1
            /\ enq' = Append(enq, it)
            /\ UNCHANGED queue
       ELSE UNCHANGED <<written, item_counter, enq, queue>>

\* Records delivered so far to the results list (library) or the sink (CLI).
Accepted == IF is_from_cli THEN Flatten(written) \o queue ELSE results

\* -------------------------------------------------- historicalQuery.query
\* query() returns (line 254) or leaves through sys.exit: its locals are gone;
\* the results list, self.item_counter and the sink's queue outlive the call.
Return ==
    /\ pc' = "returned"
    /\ since_formatted' = None
    /\ until_formatted' = None
    /\ cursor' = None
    /\ stop' = FALSE
    /\ limit' = PageLimit
    /\ unique_uris' = {}
    /\ item' = None
    /\ resp' = [posts |-> <<>>, cursor |-> None]
    /\ idx' = 1

\* The components at rest: what each specification leaves untouched.
RestSrv ==
    /\ createdAt = [r \in Recs |-> 1]
    /\ hasLink = [r \in Recs |-> TRUE]
    /\ srvCap = 1
    /\ srvPage = 1
    /\ untilIncl = FALSE

HistLocals ==
    /\ again = FALSE
    /\ since_formatted = None
    /\ until_formatted = None
    /\ cursor = None
    /\ stop = FALSE
    /\ limit = PageLimit
    /\ unique_uris = {}
    /\ item = None
    /\ resp = [posts |-> <<>>, cursor |-> None]
    /\ idx = 1
    /\ ev = "none"

RestHist ==
    /\ pc = "validate"
    /\ HistLocals

RestSink ==
    /\ results = <<>>
    /\ item_counter = 0
    /\ looked_up = {}
    /\ queue = <<>>
    /\ written = <<>>
    /\ enq = <<>>
    /\ call = [it |-> None, final_flush |-> FALSE]

RestArgs ==
    /\ cutoff = None
    /\ filter_valid = TRUE
    /\ type_valid = TRUE

StreamLocals ==
    /\ ops = <<>>
    /\ nframes = 0
    /\ seqno = 0
    /\ cutoff_time = FALSE
    /\ stop_calls = 0
    /\ clock_past = FALSE
    /\ escaped = 0

RestStream ==
    /\ st = "IDLE"
    /\ StreamLocals

\* The dids and uris that are looked up.
Keys == 1..NKeys

\* make_cached_fetchers, utils.py lines 151-152, and the lru_cache objects
\* as created: nothing is cached and the remote service was not called.
RestCache ==
    /\ profile_cache = <<>>
    /\ post_cache = <<>>
    /\ lru_author = <<>>
    /\ lru_post = <<>>
    /\ fetches = [author |-> [k \in Keys |-> 0], post |-> [k \in Keys |-> 0]]
    /\ last_lookup = "none"

\* Python's None where the other values are strings / sets of strings.
NoPattern == "None"
NoTypes == {"None"}

\* No item has been built, classified or filtered yet.
NoRecord == [embed |-> "none", reply |-> "none", text |-> <<>>,
             facet_link |-> FALSE]

NoCall == [collection |-> "", action |-> "", record |-> NoRecord,
           out |-> "unset"]

RestItem ==
    /\ collection = ""
    /\ action = ""
    /\ record = NoRecord
    /\ item_type = "unset"
    /\ first_call = NoCall
    /\ other_between = FALSE
    /\ filter_term = NoPattern
    /\ type_filter = NoTypes
    /\ link_filter = "False"
    /\ passes = "unset"

RestEnrich ==
    /\ RestCache
    /\ RestItem
    /\ e_pc = "call"
    /\ action_type = "post"
    /\ ref_uri = "none"
    /\ own_fetch = "ok"
    /\ target_post = "found"
    /\ target_author = "ok"
    /\ target_data = "unset"
    /\ e_result = "none"

RestRetry ==
    /\ r_fn = "_retry"
    /\ r_max = HqRetries
    /\ r_pc = "loop"
    /\ attempt = 1
    /\ retries = UtilRetries
    /\ delay = UtilDelay
    /\ fn = <<>>
    /\ calls = 0
    /\ sleeps = <<>>
    /\ slept = <<>>
    /\ outcome = "none"
    /\ value = "none"

HistSetup ==
    /\ createdAt \in Timelines
    /\ hasLink \in [Recs -> BOOLEAN]
    /\ srvCap \in 1..NRec
    /\ srvPage \in 1..srvCap
    /\ untilIncl \in BOOLEAN
    /\ is_from_cli \in BOOLEAN
    /\ max_items \in 0..NRec
    \* the sink's batching has its own specification: here a sink keeps
    \* up to MaxBatch records queued
    /\ batch_size = IF is_from_cli THEN MaxBatch ELSE 1
    /\ file_format = "json"
    /\ since \in TimeArgs
    /\ until \in TimeArgs
    /\ cutoff = None
    /\ filter_valid = TRUE
    /\ type_valid \in BOOLEAN
    \* a call that query() refuses never reaches the service: one service
    \* stands for all of them
    /\ (type_valid /\ ~(since # None /\ until # None /\ since > until))
       \/ RestSrv
    /\ RestSink
    /\ RestRetry
    /\ RestEnrich

InitHist ==
    /\ HistSetup
    /\ RestHist
    /\ RestStream

\* A variant in which the type filter is taken as it comes.
type_filter_unchecked ==
    TRUE

\* validate_type_filter, utils.py lines 84-97, as start() and query() call it
\* (lines 180-188 of query(), 206-214 of start()): it raises on a type that
\* is not an action type.
type_filter_ok ==
    type_valid

\* Lines 148-192: the bounds are normalised and checked, then the type
\* filter; the locals are set.
Validate ==
    /\ pc = "validate"
    /\ IF (since # None /\ until # None /\ since > until) \/ ~type_filter_ok
       THEN /\ pc' = "rejected"
            /\ ev' = "rejected"
            /\ UNCHANGED <<since_formatted, until_formatted, limit>>
       ELSE /\ pc' = "request"
            /\ ev' = "validated"
            /\ since_formatted' = since
            /\ until_formatted' = until
            /\ limit' = IF max_items # None THEN Min(PageLimit, max_items)
                        ELSE PageLimit
    /\ cursor' = None
    /\ stop' = FALSE
    /\ unique_uris' = {}
    /\ results' = <<>>
    /\ UNCHANGED <<again, item, resp, idx, item_counter, looked_up>>
    /\ UNCHANGED <<srvVars, argVars, sinkVars, strmVars, rtryVars, enrVars>>

\* Lines 200-212: one page request; an empty answer ends the loop.  A page
\* size below 1 is refused by the service: _retry gives up and the error is
\* caught at line 248.
Request ==
    /\ pc = "request"
    /\ IF limit < 1
       THEN Return /\ ev' = "error"
       ELSE LET r == search_posts([q      |-> [since |-> since_formatted,
                                               until |-> until_formatted],
                                   limit  |-> limit,
                                   cursor |-> cursor])
            IN  IF r.posts = <<>>
                THEN Return /\ ev' = "empty"
                ELSE /\ ev' = "page"
                     /\ resp' = r
                     /\ idx'  = 1
                     /\ pc'   = "page"
                     /\ UNCHANGED <<since_formatted, until_formatted, cursor,
                                    stop, limit, unique_uris, item>>
    /\ UNCHANGED <<again, results, item_counter, looked_up>>
    /\ UNCHANGED <<srvVars, argVars, sinkVars, strmVars, rtryVars, enrVars>>

\* A variant that puts the newest record first.
handle_item_prepend(it) ==
    IF ~is_from_cli
    THEN /\ item_counter' = item_counter + 1
         /\ results' = <<it>> \o results
         /\ UNCHANGED sinkVars
    ELSE /\ dump_to_file(it, FALSE)
         /\ UNCHANGED results

\* _handle_item, lines 111-133.
handle_item(it) ==
    IF ~is_from_cli
    THEN /\ item_counter' = item_counter + 1
         /\ results' = Append(results, it)
         /\ UNCHANGED sinkVars
    ELSE /\ dump_to_file(it, FALSE)
         /\ UNCHANGED results

\* A variant of the dedup test that only looks at the current page.
seen_on_page(uri) ==
    uri \in {resp.posts[i] : i \in 1..(idx - 1)}

\* Line 217: the dedup test.
seen(uri) ==
    uri \in unique_uris

\* Line 227: the max_items test after a record was handled.
\* The handler, and with it the author and post lookups of
\* finalize_item_processing (utils.py lines 401-402), is called for every
\* record, whatever the filter said.
handler_called_always(accepted) ==
    TRUE

\* historical_query.py lines 223-225, stream.py lines 87-88: the handler, and
\* with it the lookups, is called only for a record the filter accepted;
\* building the record (lines 94-109, stream.py lines 66-85) calls no service.
handler_called(accepted) ==
    accepted

\* The verdicts of the records enrichment has been entered for, after one
\* more record with the given verdict went through the filter.
lookups_after(accepted) ==
    IF handler_called(accepted)
    THEN looked_up \cup {IF accepted THEN "accepted" ELSE "rejected"}
    ELSE looked_up

max_reached(count) ==
    max_items # None /\ count = max_items

\* Lines 214-230: one iteration of the loop over resp.posts; on reaching
\* max_items the loop is left (stop, break) and query() returns.
HandlePost ==
    /\ pc = "page"
    /\ idx <= Len(resp.posts)
    /\ LET uri == resp.posts[idx]
       IN  IF seen(uri)
           THEN /\ idx' = idx + 1
                /\ ev' = "duplicate"
                /\ UNCHANGED <<since_formatted, until_formatted, cursor, stop,
                               limit, unique_uris, item, resp, pc>>
                /\ UNCHANGED <<results, item_counter, looked_up, sinkVars>>
           ELSE IF ~master_filter_hist(uri)
           THEN /\ unique_uris' = unique_uris \cup {uri}
                /\ item' = uri
                /\ idx' = idx + 1
                /\ ev' = "filtered"
                /\ UNCHANGED <<since_formatted, until_formatted, cursor, stop,
                               limit, resp, pc>>
                /\ looked_up' = lookups_after(FALSE)
                /\ UNCHANGED <<results, item_counter, sinkVars>>
           ELSE /\ handle_item(uri)
                /\ looked_up' = lookups_after(TRUE)
                /\ IF max_reached(item_counter')
                   THEN Return /\ ev' = "max_items"
                   ELSE /\ ev' = "accepted"
                        /\ unique_uris' = unique_uris \cup {uri}
                        /\ item' = uri
                        /\ idx' = idx + 1
                        /\ UNCHANGED <<since_formatted, until_formatted, cursor,
                                       stop, limit, resp, pc>>
    /\ UNCHANGED again
    /\ UNCHANGED <<srvVars, argVars, strmVars, rtryVars, enrVars>>

\* A variant that takes the boundary from the first record of the page.
backfill_until_newest ==
    createdAt[resp.posts[1]]

\* Line 236: the backfill boundary, taken from the last record converted.
backfill_until ==
    createdAt[item]

\* Lines 232-241 once the for loop is exhausted: the cursor is taken over, a
\* missing cursor sets up the until: backfill, the page size is clamped.
EndPage ==
    /\ pc = "page"
    /\ idx > Len(resp.posts)
    /\ cursor' = resp.cursor
    /\ until_formatted' = IF resp.cursor = None THEN backfill_until
                          ELSE until_formatted
    /\ limit' = IF max_items # None /\ (max_items - item_counter) < PageLimit
                THEN max_items - item_counter
                ELSE limit
    /\ pc' = "request"
    /\ ev' = IF resp.cursor = None THEN "backfill" ELSE "cursor"
    /\ UNCHANGED <<again, since_formatted, stop, unique_uris, results, item,
                   resp, idx, item_counter, looked_up>>
    /\ UNCHANGED <<srvVars, argVars, sinkVars, strmVars, rtryVars, enrVars>>

\* A variant whose except clauses give the collected records up.
returned_on_error_empty ==
    <<>>

\* Lines 243-254: both except clauses only print and fall through to
\* `return results`, the list the loop appended to.
returned_on_error ==
    results

\* Lines 243-252: an interruption, or a page request that fails after all its
\* retries, ends the loop; what was collected stays.
Abort ==
    /\ pc \in {"request", "page"}
    /\ Return
    /\ ev' = "abort"
    /\ results' = returned_on_error
    /\ UNCHANGED <<again, item_counter, looked_up>>
    /\ UNCHANGED <<srvVars, argVars, sinkVars, strmVars, rtryVars, enrVars>>

\* Enrichment of a new, accepted record raises (lines 121 / 133, caught at
\* line 248): in library use the counter was already incremented (line 120).
EnrichFail ==
    /\ pc = "page"
    /\ idx <= Len(resp.posts)
    /\ ~seen(resp.posts[idx])
    /\ master_filter_hist(resp.posts[idx])
    /\ item_counter' = IF is_from_cli THEN item_counter ELSE item_counter + 1
    /\ Return
    /\ ev' = "enrich_error"
    /\ looked_up' = lookups_after(TRUE)
    /\ results' = returned_on_error
    /\ UNCHANGED again
    /\ UNCHANGED <<srvVars, argVars, sinkVars, strmVars, rtryVars, enrVars>>

\* A further query() call on the same instance (library use): the locals are
\* fresh, self.item_counter (line 56) is not.
QueryAgain ==
    /\ pc = "returned"
    /\ ~is_from_cli
    /\ ~again
    /\ again' = TRUE
    /\ pc' = "validate"
    /\ ev' = "none"
    /\ UNCHANGED <<since_formatted, until_formatted, cursor, stop, limit,
                   unique_uris, results, item, resp, idx, item_counter,
                   looked_up>>
    /\ UNCHANGED <<srvVars, argVars, sinkVars, strmVars, rtryVars, enrVars>>

NextHist ==
    \/ Validate
    \/ Request
    \/ HandlePost
    \/ EndPage
    \/ Abort
    \/ EnrichFail
    \/ QueryAgain

SpecHist == InitHist /\ [][NextHist]_vars

\* ---------------------------------------------- firehoseStreamer.start
\* One repository operation of a commit frame, as on_message sees it:
\*   "bad"     no block for the cid, or a record get_or_create cannot build
\*   "nomatch" decoded, rejected by the filter (test_function)
\*   "match"   decoded and accepted; late: created_at >= cutoff_time
Ops ==
    {[k |-> "bad", late |-> FALSE], [k |-> "nomatch", late |-> FALSE],
     [k |-> "match", late |-> FALSE], [k |-> "match", late |-> TRUE]}

RECURSIVE SeqsUpTo(_, _)
SeqsUpTo(S, n) ==
    IF n = 0 THEN {<<>>}
    ELSE LET shorter == SeqsUpTo(S, n - 1)
         IN  shorter \cup {Append(q, x) : q \in shorter, x \in S}

Frames == SeqsUpTo(Ops, MaxOps) \ {<<>>}

\* datetime.now(timezone.utc) at the time of the call (utils.py line 70), and
\* the cutoff_time arguments: before, at and after it.
Now == 2
CutoffArgs == {Now - 1, Now, Now + 1}

StreamSetup ==
    /\ RestSrv
    /\ since = None
    /\ until = None
    /\ RestSink
    /\ is_from_cli \in BOOLEAN
    /\ max_items \in 0..MaxOps
    /\ cutoff \in {None} \cup CutoffArgs
    /\ filter_valid \in BOOLEAN
    /\ type_valid \in BOOLEAN
    /\ file_format \in IF is_from_cli THEN {"json", "jsonl"} ELSE {"json"}
    /\ batch_size \in IF is_from_cli /\ file_format = "json"
                      THEN {1, MaxBatch} ELSE {1}
    /\ RestRetry
    /\ RestEnrich

InitStream ==
    /\ StreamSetup
    /\ RestHist
    /\ RestStream

\* A variant of the cutoff test that lets the present moment through.
cutoff_not_past(c) ==
    ~(c < Now)

\* normalize_cutoff_time in stream mode, utils.py lines 69-73: a cutoff at or
\* before now is refused.
cutoff_in_future(c) ==
    ~(c <= Now)

\* str_to_re, utils.py lines 27-33, called at lines 196-204 of start(): a
\* pattern that does not compile is refused.
filter_term_ok ==
    filter_valid

\* Lines 184-214 of start(): the three argument checks, in this order.
start_accepts ==
    /\ cutoff # None => cutoff_in_future(cutoff)
    /\ filter_term_ok
    /\ type_filter_ok

\* start(), lines 184-236: the arguments are checked; a refused argument
\* raises (library) or exits (CLI) before anything else is done.  Otherwise
\* they are stored and the subscription is created and started.
Start ==
    /\ st = "IDLE"
    /\ IF start_accepts
       THEN /\ st' = "RUNNING"
            /\ cutoff_time' = (cutoff # None)
       ELSE /\ st' = "REJECTED"
            /\ UNCHANGED cutoff_time
    /\ UNCHANGED <<ops, nframes, seqno, stop_calls, clock_past, escaped>>
    /\ UNCHANGED <<srvVars, argVars, histVars, outVars, sinkVars, rtryVars, enrVars>>

\* The subscription hands the next commit frame to on_message; it does so
\* only while it has not been stopped.
Receive ==
    /\ st = "RUNNING"
    /\ ops = <<>>
    /\ nframes < MaxFrames
    /\ \E f \in Frames : ops' = f
    /\ nframes' = nframes + 1
    /\ UNCHANGED <<st, seqno, cutoff_time, stop_calls, clock_past, escaped>>
    /\ UNCHANGED <<srvVars, argVars, histVars, outVars, sinkVars, rtryVars, enrVars>>

\* A variant of the stop that does not reach the subscription.
stop_stream_noop(s) ==
    s

\* A variant of the stop that fails on a subscription already stopped.
stop_stream_once(s) ==
    IF s = "RUNNING" THEN "STOPPING" ELSE "ERROR"

\* _stop_stream, lines 131-138: firehose.stop() is idempotent.
stop_stream(s) ==
    IF s = "RUNNING" THEN "STOPPING" ELSE s

\* Lines 163 / 125 of __main__.py: the max_items test of the handler.
cap_reached(n) ==
    max_items # None /\ n >= max_items

\* on_message, lines 51-88, for one operation of the frame, with the handler
\* it calls: _collect_handler (lines 148-171) when no sink is given,
\* sink_with_count (__main__.py lines 122-135) from the CLI.  The loop over
\* message.ops does not look at the subscription's state.
HandleOp ==
    /\ st \in {"RUNNING", "STOPPING"}
    /\ ops # <<>>
    /\ ops' = Tail(ops)
    /\ seqno' = seqno + 1
    /\ looked_up' = IF Head(ops).k = "bad" THEN looked_up
                     ELSE lookups_after(Head(ops).k = "match")
    /\ IF Head(ops).k # "match"
       THEN UNCHANGED <<st, stop_calls, results, item_counter, sinkVars>>
       ELSE /\ IF is_from_cli
               THEN /\ dump_to_file(seqno', FALSE)
                    /\ UNCHANGED results
               ELSE /\ results' = Append(results, seqno')
                    /\ UNCHANGED <<item_counter, sinkVars>>
            /\ LET n     == IF is_from_cli THEN item_counter' ELSE Len(results')
                   byMax == cap_reached(n)
                   byCut == cutoff_time /\ Head(ops).late
               IN  /\ st' = IF byMax /\ byCut THEN stop_stream(stop_stream(st))
                             ELSE IF byMax \/ byCut THEN stop_stream(st)
                             ELSE st
                   /\ stop_calls' = stop_calls + (IF byMax THEN 1 ELSE 0)
                                               + (IF byCut THEN 1 ELSE 0)
    /\ UNCHANGED <<nframes, cutoff_time, clock_past, escaped>>
    /\ UNCHANGED <<srvVars, argVars, histVars, rtryVars, enrVars>>

\* Lines 241-246: once the finally clause has stopped the subscription,
\* start() returns.
returned(s) ==
    IF s = "STOPPING" THEN "STOPPED" ELSE s

\* A frame that does not decode: parse_subscribe_repos_message (line 46) or
\* CAR.from_bytes (line 49) raises, outside any try of on_message.  What the
\* subscription client does with an exception of its callback is not in this
\* repository: it drops it and goes on, or it lets it through to start(),
\* whose except / finally clauses (lines 239-242) end the stream.
ReceiveMalformed ==
    /\ st = "RUNNING"
    /\ ops = <<>>
    /\ nframes < MaxFrames
    /\ nframes' = nframes + 1
    /\ escaped' = escaped + 1
    /\ \/ UNCHANGED <<st, stop_calls>>
       \/ /\ st' = returned(stop_stream(st))
          /\ stop_calls' = stop_calls + 1
    /\ UNCHANGED <<ops, seqno, cutoff_time, clock_past>>
    /\ UNCHANGED <<srvVars, argVars, histVars, outVars, sinkVars, rtryVars, enrVars>>

\* Time passes: the wall clock reaches the cutoff while the stream runs.
\* Nothing in start() or on_message reads the clock.
Tick ==
    /\ st = "RUNNING"
    /\ cutoff_time
    /\ ~clock_past
    /\ clock_past' = TRUE
    /\ UNCHANGED <<st, ops, nframes, seqno, cutoff_time, stop_calls, escaped>>
    /\ UNCHANGED <<srvVars, argVars, histVars, outVars, sinkVars, rtryVars, enrVars>>

\* The frame handler has returned and the subscription was stopped:
\* firehose.start() returns and start() stops it once more (line 242).
FrameDone ==
    /\ st = "STOPPING"
    /\ ops = <<>>
    /\ st' = returned(stop_stream(st))
    /\ stop_calls' = stop_calls + 1
    /\ UNCHANGED <<ops, nframes, seqno, cutoff_time, clock_past, escaped>>
    /\ UNCHANGED <<srvVars, argVars, histVars, outVars, sinkVars, rtryVars, enrVars>>

\* Lines 237-242: an interruption, or an error raised under firehose.start()
\* (a frame that does not parse, an enrichment failure in the handler), ends
\* start(); the rest of the frame is not processed.
StreamAbort ==
    /\ st \in {"RUNNING", "STOPPING"}
    /\ st' = returned(stop_stream(st))
    /\ ops' = <<>>
    /\ stop_calls' = stop_calls + 1
    /\ UNCHANGED <<nframes, seqno, cutoff_time, clock_past, escaped>>
    /\ UNCHANGED <<srvVars, argVars, histVars, outVars, sinkVars, rtryVars, enrVars>>

\* A variant of the exit path that leaves without flushing.
final_flush_skipped ==
    UNCHANGED <<item_counter, sinkVars>>

\* __main__.py lines 157-160: the finally clause of the stream command.
final_flush ==
    IF file_format = "json"
    THEN dump_to_file(None, TRUE)
    ELSE UNCHANGED <<item_counter, sinkVars>>

\* The CLI command ends: start() has returned (or raised) and the finally
\* clause runs before the process exits.
CliExit ==
    /\ st = "STOPPED"
    /\ is_from_cli
    /\ final_flush
    /\ st' = "EXITED"
    /\ UNCHANGED <<ops, nframes, seqno, cutoff_time, stop_calls, clock_past,
                   escaped>>
    /\ UNCHANGED <<srvVars, argVars, histVars, results, looked_up, rtryVars,
                   enrVars>>

NextStream ==
    \/ Start
    \/ Receive
    \/ ReceiveMalformed
    \/ Tick
    \/ HandleOp
    \/ FrameDone
    \/ StreamAbort
    \/ CliExit

SpecStream == InitStream /\ [][NextStream]_vars

\* ------------------------------------------------- enrichment of a record
ActionTypes == {"post", "reply", "quote", "repost", "like", "other"}

InitEnrich ==
    /\ RestSrv
    /\ RestHist
    /\ RestStream
    /\ RestSink
    /\ RestRetry
    /\ RestArgs
    /\ since = None
    /\ until = None
    /\ is_from_cli = FALSE
    /\ max_items = None
    /\ batch_size = 1
    /\ file_format = "json"
    /\ RestCache
    /\ RestItem
    /\ e_pc = "call"
    /\ action_type \in ActionTypes
    /\ ref_uri \in {"none", "did", "handle"}
    /\ own_fetch \in {"ok", "error"}
    /\ target_post \in {"found", "empty", "error"}
    /\ target_author \in {"ok", "error"}
    /\ target_data = "unset"
    /\ e_result = "none"

\* A variant that leaves likes without target.
needs_target_but_like(t) ==
    t \in {"quote", "repost", "reply"}

\* Line 407 of finalize_item_processing: the types that refer to a target.
needs_target(t) ==
    t \in {"quote", "repost", "reply", "like"}

\* Lines 175-191 of get_target_data: the target's uri, read at the place the
\* record's type keeps it; None for a type that keeps none.
target_uri ==
    IF action_type \in {"repost", "quote", "reply", "like"} THEN ref_uri
    ELSE "none"

\* A variant that lets a failed fetch through.
on_fetch_error_raise ==
    "raise"

\* Lines 217-219: a fetch that raises is caught, reported, and gives None.
on_fetch_error ==
    "null"

\* get_target_data, lines 168-219.
get_target_data ==
    IF target_uri = "none" THEN "null"
    ELSE IF target_post = "error" THEN on_fetch_error
    ELSE IF target_post = "empty" THEN "null"
    ELSE IF target_uri = "did" /\ target_author = "error" THEN on_fetch_error
    ELSE "data"

\* finalize_item_processing, lines 396-414: the record's own lookups come
\* first and are not guarded; then the target, then structure_item.
Finalize ==
    /\ e_pc = "call"
    /\ e_pc' = "done"
    /\ IF own_fetch = "error"
       THEN /\ e_result' = "raised"
            /\ UNCHANGED target_data
       ELSE LET t == IF needs_target(action_type) THEN get_target_data
                     ELSE "null"
            IN  IF t = "raise"
                THEN /\ e_result' = "raised"
                     /\ UNCHANGED target_data
                ELSE /\ e_result' = "enriched"
                     /\ target_data' = t
    /\ UNCHANGED <<action_type, ref_uri, own_fetch, target_post, target_author>>
    /\ UNCHANGED <<cacheVars, itemVars>>
    /\ UNCHANGED <<srvVars, argVars, histVars, outVars, sinkVars, strmVars,
                   rtryVars>>

NextEnrich ==
    \/ Finalize

SpecEnrich == InitEnrich /\ [][NextEnrich]_vars

\* ------------------------------------------------------ the metadata cache
\* functools.lru_cache around a fetcher: a hit makes the key the most
\* recently used one; a result is stored after the call returned, the least
\* recently used key making room for it.  LruMaxsize stands for maxsize=1024
\* (stream.py lines 126-127, historical_query.py lines 53-54, __main__.py
\* lines 48-49).
lru_hit(lru, k) ==
    k \in Range(lru)

lru_touch(lru, k) ==
    Append(SelectSeq(lru, LAMBDA x : x # k), k)

lru_put(lru, k) ==
    LET l == Append(lru, k)
    IN  IF Len(l) > LruMaxsize THEN Tail(l) ELSE l

\* A variant of the membership test that finds nothing.
in_cache_never(k, cache) ==
    FALSE

\* utils.py lines 155 / 160: the test `key not in cache`.
in_cache(k, cache) ==
    k \in DOMAIN cache

\* get_author_data, utils.py lines 318-321: the profile, or an exception
\* when retry gave up and returned None.
AuthorAnswers == {"data", "raise"}

\* get_post_data, utils.py lines 324-330: the post, {} when the service
\* knows no such post, or the exception of the request.
PostAnswers == {"data", "empty", "raise"}

\* get_author_data_cached (lines 154-157) under its lru_cache, for any did:
\* of a record's author or of a target's author.
LookupAuthor ==
    /\ \E k \in Keys :
        IF lru_hit(lru_author, k)
        THEN /\ lru_author' = lru_touch(lru_author, k)
             /\ last_lookup' = "lru"
             /\ UNCHANGED <<profile_cache, fetches>>
        ELSE IF in_cache(k, profile_cache)
        THEN /\ lru_author' = lru_put(lru_author, k)
             /\ last_lookup' = "dict"
             /\ UNCHANGED <<profile_cache, fetches>>
        ELSE \E a \in AuthorAnswers :
             IF a = "raise"
             THEN /\ last_lookup' = "raised"
                  /\ UNCHANGED <<profile_cache, lru_author, fetches>>
             ELSE /\ profile_cache' = (k :> a) @@ profile_cache
                  /\ fetches' = [fetches EXCEPT !.author[k] = @ + 1]
                  /\ lru_author' = lru_put(lru_author, k)
                  /\ last_lookup' = "fetched"
    /\ UNCHANGED <<post_cache, lru_post>>
    /\ UNCHANGED <<e_pc, action_type, ref_uri, own_fetch, target_post,
                   target_author, target_data, e_result, itemVars>>
    /\ UNCHANGED <<srvVars, argVars, histVars, outVars, sinkVars, strmVars,
                   rtryVars>>

\* get_post_data_cached (lines 159-162) under its lru_cache, for any uri: of
\* a record or of a record's target.
LookupPost ==
    /\ \E k \in Keys :
        IF lru_hit(lru_post, k)
        THEN /\ lru_post' = lru_touch(lru_post, k)
             /\ last_lookup' = "lru"
             /\ UNCHANGED <<post_cache, fetches>>
        ELSE IF in_cache(k, post_cache)
        THEN /\ lru_post' = lru_put(lru_post, k)
             /\ last_lookup' = "dict"
             /\ UNCHANGED <<post_cache, fetches>>
        ELSE \E a \in PostAnswers :
             IF a = "raise"
             THEN /\ last_lookup' = "raised"
                  /\ UNCHANGED <<post_cache, lru_post, fetches>>
             ELSE /\ post_cache' = (k :> a) @@ post_cache
                  /\ fetches' = [fetches EXCEPT !.post[k] = @ + 1]
                  /\ lru_post' = lru_put(lru_post, k)
                  /\ last_lookup' = "fetched"
    /\ UNCHANGED <<profile_cache, lru_author>>
    /\ UNCHANGED <<e_pc, action_type, ref_uri, own_fetch, target_post,
                   target_author, target_data, e_result, itemVars>>
    /\ UNCHANGED <<srvVars, argVars, histVars, outVars, sinkVars, strmVars,
                   rtryVars>>

\* One process, one pair of fetchers (built once in __init__ or in the CLI
\* group callback), any sequence of lookups.
InitCache ==
    /\ RestSrv
    /\ RestHist
    /\ RestStream
    /\ RestSink
    /\ RestRetry
    /\ RestArgs
    /\ RestEnrich
    /\ since = None
    /\ until = None
    /\ is_from_cli \in BOOLEAN
    /\ max_items = None
    /\ batch_size = 1
    /\ file_format = "json"

NextCache ==
    \/ LookupAuthor
    \/ LookupPost

SpecCache == InitCache /\ [][NextCache]_vars

\* ------------------------------------- enrichment over shared objects
\* The dict get_post_data built for a uri (utils.py lines 324-330), as long
\* as nothing has touched it: the post with its 'author' key and its nested
\* 'record' dict, or {} when the service knows no such post.  Of the keys
\* enrichment adds or removes the model keeps 'author', the promoted
\* 'action' and the 'uri' / 'post_url' pair of the nested record.
fresh_post(answer) ==
    [kind |-> answer, author |-> answer = "data", action |-> "absent",
     rec_uri |-> FALSE]

\* get_post_data_cached, lines 159-162: the object stored for the key is
\* returned itself, not a copy; a miss stores what the service answered.
cached_after(cache, k, answer) ==
    IF in_cache(k, cache) THEN cache ELSE (k :> fresh_post(answer)) @@ cache

\* get_target_data, lines 197-210: post_data = post_data.get('record', {})
\* is the nested dict of the cached object, and update() writes 'uri' and
\* 'post_url' into it; an empty answer returns None before.
target_update(cache, t) ==
    IF cache[t].kind = "data" THEN [cache EXCEPT ![t].rec_uri = TRUE] ELSE cache

\* structure_item, lines 362-393, for a record of the stream (no 'post_data'
\* key yet): item['post_data'] is the cached object, update() promotes the
\* record's fields into it and pop() removes its 'author'.
structure_update(cache, u, a) ==
    [cache EXCEPT ![u].action = a, ![u].author = FALSE]

\* What a delivered record holds: its post_data is the cached object of its
\* own uri, the post_data of its target_data the nested record of the cached
\* object of the target.
contents(it, cache) ==
    [post   |-> cache[it.post],
     target |-> IF it.target = None THEN None ELSE cache[it.target].rec_uri]

\* One accepted record of the stream goes through finalize_item_processing
\* (lines 396-414) and is appended to results (stream.py lines 155-159; the
\* CLI's sink appends the same object to its queue, utils.py line 443).  u is
\* the record's uri, a its action, t the uri of its target (None: the type
\* has no target).  With {} for the record's own post, get_post_url raises at
\* line 370 and nothing is delivered.
FinalizeShared ==
    /\ Len(results) < MaxOps
    /\ \E u \in Keys, a \in {"create", "update"}, t \in Keys \cup {None},
          own \in {"data", "empty"}, tgt \in {"data", "empty"} :
          /\ t # u
          /\ a = "update" => t = None
          /\ LET c1 == cached_after(post_cache, u, own)
                 c2 == IF t = None THEN c1
                       ELSE target_update(cached_after(c1, t, tgt), t)
                 td == IF t # None /\ c2[t].kind = "data" THEN t ELSE None
             IN  IF c2[u].kind = "empty"
                 THEN /\ post_cache' = c2
                      /\ UNCHANGED results
                 ELSE /\ post_cache' = structure_update(c2, u, a)
                      /\ results' = Append(results, [post |-> u, target |-> td])
    /\ UNCHANGED <<item_counter, looked_up, profile_cache, lru_author, lru_post,
                   fetches, last_lookup>>
    /\ UNCHANGED <<e_pc, action_type, ref_uri, own_fetch, target_post,
                   target_author, target_data, e_result, itemVars>>
    /\ UNCHANGED <<srvVars, argVars, histVars, sinkVars, strmVars, rtryVars>>

\* A stream in library use with its own pair of fetchers.
InitShare ==
    /\ RestSrv
    /\ RestHist
    /\ RestStream
    /\ RestSink
    /\ RestRetry
    /\ RestArgs
    /\ RestEnrich
    /\ since = None
    /\ until = None
    /\ is_from_cli = FALSE
    /\ max_items = None
    /\ batch_size = 1
    /\ file_format = "json"

NextShare ==
    \/ FinalizeShared

SpecShare == InitShare /\ [][NextShare]_vars

\* ------------------------------------------------------------- get_type
\* The inputs on_message hands to get_type (stream.py lines 78-82): the
\* collection of the uri, the operation's action and the decoded record.
Collections == {"app.bsky.feed.post", "app.bsky.feed.repost",
                "app.bsky.feed.like", "app.bsky.graph.follow"}

OpActions == {"create", "update", "delete"}

\* record['embed']: missing / None, or a dict with its py_type.
Embeds == {"none", "app.bsky.embed.external", "app.bsky.embed.record",
           "app.bsky.embed.recordWithMedia"}

\* record['reply']: missing / None, an empty dict, or a reply reference.
Replies == {"none", "empty", "ref"}

ClassifierRecords ==
    {[embed |-> e, reply |-> r, text |-> <<>>, facet_link |-> FALSE] :
        e \in Embeds, r \in Replies}

\* A variant that also takes updates.
is_create_or_update(a) ==
    a \in {"create", "update"}

\* Line 539.
is_create(a) ==
    a = "create"

\* Lines 544-545: the py_type of the embed, '' when there is no embed.
embed_type(r) ==
    IF r.embed = "none" THEN "" ELSE r.embed

\* A variant that knows the plain record embed only.
is_quote_embed_plain(t) ==
    t = "app.bsky.embed.record"

\* Lines 547-549.
is_quote_embed(t) ==
    t \in {"app.bsky.embed.record", "app.bsky.embed.recordWithMedia"}

\* A variant that remembers the classification made before.
reply_present_sticky(r) ==
    r.reply = "ref" \/ item_type = "reply"

\* Line 553: the truth value of record.get('reply').
reply_present(r) ==
    r.reply = "ref"

\* A variant that does not know the like collection.
collection_type_no_like(c) ==
    IF c = "app.bsky.feed.repost" THEN "repost" ELSE "other"

\* Lines 558-566.
collection_type(c) ==
    IF c = "app.bsky.feed.repost" THEN "repost"
    ELSE IF c = "app.bsky.feed.like" THEN "like"
    ELSE "other"

\* get_type, utils.py lines 537-566.
get_type(c, a, r) ==
    IF ~is_create(a) THEN "other"
    ELSE IF c = "app.bsky.feed.post"
    THEN IF is_quote_embed(embed_type(r)) THEN "quote"
         ELSE IF reply_present(r) THEN "reply"
         ELSE "post"
    ELSE collection_type(c)

InitClassify ==
    /\ RestSrv
    /\ RestHist
    /\ RestStream
    /\ RestSink
    /\ RestRetry
    /\ RestArgs
    /\ RestEnrich
    /\ since = None
    /\ until = None
    /\ is_from_cli = FALSE
    /\ max_items = None
    /\ batch_size = 1
    /\ file_format = "json"

\* One call of get_type, on any input, after any calls made before.
Classify ==
    /\ \E c \in Collections, a \in OpActions, r \in ClassifierRecords :
        /\ collection' = c
        /\ action' = a
        /\ record' = r
        /\ item_type' = get_type(c, a, r)
        /\ first_call' = IF item_type = "unset"
                         THEN [collection |-> c, action |-> a, record |-> r,
                               out |-> item_type']
                         ELSE first_call
        /\ other_between' = (other_between \/
                               (/\ item_type # "unset"
                                /\ <<c, a, r>> # <<first_call.collection,
                                                   first_call.action,
                                                   first_call.record>>))
    /\ UNCHANGED <<filter_term, type_filter, link_filter, passes>>
    /\ UNCHANGED <<e_pc, action_type, ref_uri, own_fetch, target_post,
                   target_author, target_data, e_result, cacheVars>>
    /\ UNCHANGED <<srvVars, argVars, histVars, outVars, sinkVars, strmVars,
                   rtryVars>>

NextClassify ==
    \/ Classify

SpecClassify == InitClassify /\ [][NextClassify]_vars

\* ------------------------------------------------------ the target resolver
\* The places of a record that may hold the address of another record.
Locations == {"subject", "embed.record", "embed.record.record", "reply.root",
              "reply.parent"}

\* An address names its authority by DID or by handle; NoUri is a missing key.
NoUri == [at |-> "none", auth |-> "none"]

\* The address of the record being enriched; its repo is always a DID.
OwnUri == [at |-> "own", auth |-> "did"]

\* The records get_target_data reads: the py_type of the embed, and for every
\* place the address found there (each place holds its own address).
TargetRecords ==
    {[embed |-> e, has |-> h, auth |-> a] :
        e \in Embeds, h \in SUBSET Locations, a \in {"did", "handle"}}

uri_at(r, loc) ==
    IF loc \in r.has THEN [at |-> loc, auth |-> r.auth] ELSE NoUri

\* Line 187: record['reply']['root']['uri'].
reply_location ==
    "reply.root"

\* Lines 175-191 of get_target_data: where the target's address is read.
target_uri_of(t, r) ==
    IF t = "repost" THEN uri_at(r, "subject")
    ELSE IF t = "quote"
    THEN IF r.embed = "app.bsky.embed.recordWithMedia"
         THEN uri_at(r, "embed.record.record")
         ELSE IF r.embed = "app.bsky.embed.record"
         THEN uri_at(r, "embed.record")
         ELSE NoUri
    ELSE IF t = "reply" THEN uri_at(r, reply_location)
    ELSE IF t = "like" THEN uri_at(r, "subject")
    ELSE NoUri

\* Lines 203-205: the author is looked up under the DID found in the address;
\* an address without a DID gives {} without a lookup.
author_lookups(uri) ==
    IF uri.auth = "did" THEN {uri} ELSE {}

\* finalize_item_processing, lines 401-408, with get_target_data, lines
\* 168-215: the record's own author and post are looked up, then the target's
\* post and author, all through the pair of fetchers the caller passed in.
\* The caches record which keys were looked up; a target post the service
\* does not know ends the resolution before the author (lines 198-199).
ResolveTarget ==
    /\ e_pc = "call"
    /\ e_pc' = "done"
    /\ \E answer \in {"data", "empty"} :
        LET uri == IF needs_target(action_type)
                   THEN target_uri_of(action_type, record) ELSE NoUri
        IN  IF uri = NoUri
            THEN /\ target_data' = NoUri
                 /\ post_cache' = (OwnUri :> "data") @@ post_cache
                 /\ profile_cache' = (OwnUri :> "data") @@ profile_cache
            ELSE IF answer = "empty"
            THEN /\ target_data' = NoUri
                 /\ post_cache' = (uri :> answer) @@ (OwnUri :> "data")
                                      @@ post_cache
                 /\ profile_cache' = (OwnUri :> "data") @@ profile_cache
            ELSE /\ target_data' = uri
                 /\ post_cache' = (uri :> answer) @@ (OwnUri :> "data")
                                      @@ post_cache
                 /\ profile_cache' = [k \in author_lookups(uri) |-> "data"]
                                         @@ (OwnUri :> "data") @@ profile_cache
    /\ e_result' = "enriched"
    /\ UNCHANGED <<action_type, ref_uri, own_fetch, target_post, target_author,
                   lru_author, lru_post, fetches, last_lookup>>
    /\ UNCHANGED <<collection, action, item_type, first_call, other_between,
                   filter_term, type_filter, link_filter, passes, record>>
    /\ UNCHANGED <<srvVars, argVars, histVars, outVars, sinkVars, strmVars,
                   rtryVars>>

\* One record of any type about to be enriched; get_type (lines 537-566)
\* calls it a quote only with one of the two record embeds.
InitResolve ==
    /\ RestSrv
    /\ RestHist
    /\ RestStream
    /\ RestSink
    /\ RestRetry
    /\ RestArgs
    /\ since = None
    /\ until = None
    /\ is_from_cli = FALSE
    /\ max_items = None
    /\ batch_size = 1
    /\ file_format = "json"
    /\ RestCache
    /\ collection = ""
    /\ action = ""
    /\ item_type = "unset"
    /\ first_call = NoCall
    /\ other_between = FALSE
    /\ filter_term = NoPattern
    /\ type_filter = NoTypes
    /\ link_filter = "False"
    /\ passes = "unset"
    /\ record \in TargetRecords
    /\ action_type \in ActionTypes
    /\ action_type = "quote" <=> is_quote_embed(record.embed)
    /\ e_pc = "call"
    /\ ref_uri = "none"
    /\ own_fetch = "ok"
    /\ target_post = "found"
    /\ target_author = "ok"
    /\ target_data = "unset"
    /\ e_result = "none"

NextResolve ==
    \/ ResolveTarget

SpecResolve == InitResolve /\ [][NextResolve]_vars

\* -------------------------------------------------------- master_filter
\* record['text'] as the words it holds; a pattern is the word it finds.
Texts == {<<>>, <<"go">>, <<"rust">>, <<"go", "rust">>}

FilterRecords ==
    {[embed |-> e, reply |-> r, text |-> t, facet_link |-> f] :
        e \in Embeds, r \in {"none", "ref"}, t \in Texts, f \in BOOLEAN}

\* has_link_, lines 484-506: http links of a created post, in its external
\* embed or in its facets.
has_link_(c, a, r) ==
    /\ c = "app.bsky.feed.post"
    /\ a = "create"
    /\ (r.embed = "app.bsky.embed.external" \/ r.facet_link)

\* has_term, lines 509-513: pattern.search on the record's text.
has_term(r, pattern) ==
    \E i \in 1..Len(r.text) : r.text[i] = pattern

\* master_filter, lines 516-533; the callers' link_filter (stream.py line
\* 145, historical_query.py line 223) is its has_link.
master_filter(c, a, r, t, term, types, has_link) ==
    IF types # NoTypes /\ t \notin types THEN FALSE
    ELSE IF term # NoPattern /\ ~has_term(r, term) THEN FALSE
    ELSE IF has_link # "None" /\ ~has_link_(c, a, r) THEN FALSE
    ELSE TRUE

\* The type_filter arguments: not given, or a list of types.
TypeFilters ==
    {{}, ActionTypes} \cup {{t} : t \in ActionTypes}
    \cup {{"post", "reply"}, {"quote", "repost", "like"}}

\* start() was called with these filter arguments (lines 175-177, stored at
\* lines 217-219) and on_message has built an item (lines 66-85).
InitFilter ==
    /\ RestSrv
    /\ RestHist
    /\ RestStream
    /\ RestSink
    /\ RestRetry
    /\ RestArgs
    /\ RestCache
    /\ since = None
    /\ until = None
    /\ is_from_cli = FALSE
    /\ max_items = None
    /\ batch_size = 1
    /\ file_format = "json"
    /\ e_pc = "call"
    /\ action_type = "post"
    /\ ref_uri = "none"
    /\ own_fetch = "ok"
    /\ target_post = "found"
    /\ target_author = "ok"
    /\ target_data = "unset"
    /\ e_result = "none"
    /\ collection \in Collections
    /\ action \in OpActions
    /\ record \in FilterRecords
    /\ item_type = get_type(collection, action, record)
    /\ first_call = NoCall
    /\ other_between = FALSE
    /\ filter_term \in {NoPattern, "rust"}
    /\ type_filter \in {NoTypes} \cup TypeFilters
    /\ link_filter \in {"False", "True"}
    /\ passes = "unset"

\* _filter_item, stream.py lines 140-146, called at line 87 of on_message.
FilterItem ==
    /\ passes = "unset"
    /\ passes' = IF master_filter(collection, action, record, item_type,
                                  filter_term, type_filter, link_filter)
                 THEN "accept" ELSE "reject"
    /\ UNCHANGED <<collection, action, record, item_type, first_call,
                   other_between, filter_term, type_filter, link_filter>>
    /\ UNCHANGED <<e_pc, action_type, ref_uri, own_fetch, target_post,
                   target_author, target_data, e_result, cacheVars>>
    /\ UNCHANGED <<srvVars, argVars, histVars, outVars, sinkVars, strmVars,
                   rtryVars>>

NextFilter ==
    \/ FilterItem

SpecFilter == InitFilter /\ [][NextFilter]_vars

\* Either entry point, called once: start() on a streamer or query() on a
\* historicalQuery; the component not in use takes no step.
InitConfig ==
    \/ /\ StreamSetup
       /\ RestStream
       /\ pc = "unused"
       /\ HistLocals
    \/ /\ HistSetup
       /\ RestHist
       /\ st = "UNUSED"
       /\ StreamLocals

NextConfig ==
    \/ NextStream
    \/ NextHist

SpecConfig == InitConfig /\ [][NextConfig]_vars

\* The runs whose progress is looked at: those whose sink, if any, writes
\* every record at once (the batching of the sink has its own specification).
InitStreamFair ==
    /\ InitStream
    /\ batch_size = 1
    /\ file_format = "json"

\* The callback loop and start() run on; the firehose owes no frame.
SpecStreamFair ==
    /\ InitStreamFair
    /\ [][NextStream]_vars
    /\ WF_vars(HandleOp)
    /\ WF_vars(FrameDone)

\* ------------------------------------------------------- the batch sink
InitSink ==
    /\ RestSrv
    /\ RestHist
    /\ RestStream
    /\ RestSink
    /\ since = None
    /\ until = None
    /\ is_from_cli = TRUE
    /\ RestArgs
    /\ max_items = None
    /\ batch_size \in 0..MaxBatch
    /\ file_format \in {"json", "jsonl", "csv"}
    /\ RestRetry
    /\ RestEnrich

\* accept(record_or_none, final_flush): one dump_to_file call, with the next
\* record or with none.  The batch size is whatever integer the caller
\* configured (__main__.py lines 68 and 172 take any int); the number of
\* batches written is capped at MaxCalls.
SinkCall ==
    /\ Len(written) < MaxCalls
    /\ \E it \in {None, Len(enq) + 1}, ff \in BOOLEAN :
          /\ it # None => Len(enq) < MaxCalls
          /\ dump_to_file(it, ff)
    /\ UNCHANGED <<srvVars, argVars, histVars, results, looked_up, strmVars,
                   rtryVars, enrVars>>

NextSink ==
    \/ SinkCall

SpecSink == InitSink /\ [][NextSink]_vars

\* ------------------------------------------------- the retry executors
RECURSIVE Pow(_, _)
Pow(b, n) == IF n = 0 THEN 1 ELSE b * Pow(b, n - 1)

\* What one call of the wrapped function does: it answers, it fails, or it
\* fails with an error whose text names an account takedown.
CallOutcomes == {"ok", "error", "AccountTakedown"}

\* The wrapped function as the executor meets it: its outcome on each of the
\* n calls the executor can make; once it has answered it keeps answering.
Fns(n) ==
    {f \in [1..n -> CallOutcomes] :
        \A i \in 1..(n - 1) : f[i] = "ok" => f[i + 1] = "ok"}

\* random.uniform(0.9, 1.1), line 83, in percent.
Jitter == {90, 100, 110}

\* The exception raised by the n-th call.
Exc(kind, n) == <<kind, n>>

InitRetry ==
    /\ RestSrv
    /\ RestHist
    /\ RestStream
    /\ RestSink
    /\ since = None
    /\ until = None
    /\ is_from_cli = FALSE
    /\ RestArgs
    /\ RestEnrich
    /\ max_items = None
    /\ batch_size = 1
    /\ file_format = "json"
    /\ r_fn \in {"_retry", "retry"}
    /\ r_max \in IF r_fn = "_retry" THEN 1..HqRetries ELSE {UtilRetries}
    /\ r_pc = "loop"
    /\ attempt = 1
    /\ retries = UtilRetries
    /\ delay = UtilDelay
    /\ fn \in Fns(r_max)
    /\ calls = 0
    /\ sleeps = <<>>
    /\ slept = <<>>
    /\ outcome = "none"
    /\ value = "none"

\* A variant whose delay grows by a fixed step.
hq_sleep_time_linear(n) ==
    HqDelay * n

\* Line 81: the delay before the next attempt.
hq_sleep_time(n) ==
    HqDelay * Pow(HqBackoff, n - 1)

\* A variant that never takes an attempt for the last one.
hq_exhausted_never(n) ==
    FALSE

\* Line 78: the failed attempt was the last one.
hq_exhausted(n) ==
    n = r_max

\* historicalQuery._retry, lines 73-91: one turn of the loop - the call, and
\* on failure the re-raise of the last attempt or the sleep.
HqAttempt ==
    /\ r_fn = "_retry"
    /\ r_pc = "loop"
    /\ attempt <= r_max
    /\ \E j \in Jitter :
       LET o == fn[calls + 1] IN
          /\ calls' = calls + 1
          /\ IF o = "ok"
             THEN /\ r_pc' = "done"
                  /\ outcome' = "returned"
                  /\ value' = "response"
                  /\ UNCHANGED <<attempt, sleeps, slept>>
             ELSE IF hq_exhausted(attempt)
             THEN /\ r_pc' = "done"
                  /\ outcome' = "raised"
                  /\ value' = Exc(o, attempt)
                  /\ UNCHANGED <<attempt, sleeps, slept>>
             ELSE /\ sleeps' = Append(sleeps, hq_sleep_time(attempt))
                  /\ slept' = Append(slept, j)
                  /\ attempt' = attempt + 1
                  /\ UNCHANGED <<r_pc, outcome, value>>
    /\ UNCHANGED <<r_fn, r_max, retries, delay, fn>>
    /\ UNCHANGED <<srvVars, argVars, histVars, outVars, sinkVars, strmVars, enrVars>>

\* Line 136: the delay doubles.
util_next_delay(d) ==
    d * UtilBackoff

\* utils.retry, lines 123-139: one turn of the loop; a takedown breaks out of
\* it, and leaving the loop returns None.
UtilAttempt ==
    /\ r_fn = "retry"
    /\ r_pc = "loop"
    /\ retries > 0
    /\ LET o == fn[calls + 1] IN
          /\ calls' = calls + 1
          /\ IF o = "ok"
             THEN /\ r_pc' = "done"
                  /\ outcome' = "returned"
                  /\ value' = "response"
                  /\ UNCHANGED <<retries, delay, sleeps, slept>>
             ELSE IF o = "AccountTakedown"
             THEN /\ r_pc' = "done"
                  /\ outcome' = "returned"
                  /\ value' = "None"
                  /\ UNCHANGED <<retries, delay, sleeps, slept>>
             ELSE /\ sleeps' = Append(sleeps, delay)
                  /\ slept' = Append(slept, 100)
                  /\ delay' = util_next_delay(delay)
                  /\ retries' = retries - 1
                  /\ IF retries' > 0
                     THEN UNCHANGED <<r_pc, outcome, value>>
                     ELSE /\ r_pc' = "done"
                          /\ outcome' = "returned"
                          /\ value' = "None"
    /\ UNCHANGED <<r_fn, r_max, attempt, fn>>
    /\ UNCHANGED <<srvVars, argVars, histVars, outVars, sinkVars, strmVars, enrVars>>

\* get_author_data, lines 318-321: the caller of utils.retry uses the answer
\* at once; on None, r.model_dump() raises an AttributeError of its own.
GetAuthorData ==
    /\ r_fn = "retry"
    /\ r_pc = "done"
    /\ r_pc' = "caller"
    /\ IF value = "None"
       THEN outcome' = "raised" /\ value' = Exc("AttributeError", 0)
       ELSE UNCHANGED <<outcome, value>>
    /\ UNCHANGED <<r_fn, r_max, attempt, retries, delay, fn, calls, sleeps,
                   slept>>
    /\ UNCHANGED <<srvVars, argVars, histVars, outVars, sinkVars, strmVars, enrVars>>

NextRetry ==
    \/ HqAttempt
    \/ UtilAttempt
    \/ GetAuthorData

SpecRetry == InitRetry /\ [][NextRetry]_vars

\* The loop of query() runs on its own thread of control and always takes its
\* next step; interruptions, failures and further calls are left out.
NextHistRun ==
    \/ Validate
    \/ Request
    \/ HandlePost
    \/ EndPage

\* Library use without a time window.
InitHistFair ==
    /\ InitHist
    /\ ~is_from_cli
    /\ since = None
    /\ until = None

SpecHistFair ==
    /\ InitHistFair
    /\ [][NextHistRun]_vars
    /\ WF_vars(NextHistRun)

\* ------------------------------------------------------------ properties
NoDup(s) == \A i, j \in 1..Len(s) : i # j => s[i] # s[j]

\* Records of the caller's since/until window that pass the filter.
UserMatching ==
    {r \in Matching([since |-> since, until |-> until]) : master_filter_hist(r)}

\* C1: during one query() run every record uri is delivered to the results
\* list / the sink at most once, whatever pages the service returns.
C1_DeliveredOnce ==
    NoDup(Accepted)

\* C1 witness: after a backfill transition the service returned a record that
\* had already been delivered, and the loop skipped it.
C1_Witness ==
    /\ ev = "duplicate"
    /\ cursor = None
    /\ until_formatted # until
    /\ resp.posts[idx - 1] \in Range(Accepted)

\* C3 (as claimed): with max_items = N and at least N matching unique records
\* on the service, a query() run that is not interrupted and whose enrichment
\* does not fail ends with exactly N records accepted.  (Stated for services
\* whose records have distinct timestamps.)
C3_ExactlyN ==
    (/\ pc = "returned"
     /\ \A i, j \in Recs : i # j => createdAt[i] # createdAt[j]
     /\ ev \in {"max_items", "empty", "error"}
     /\ max_items # None
     /\ Cardinality(UserMatching) >= max_items)
    => Len(Accepted) = max_items

\* C2 (as claimed): once a page without cursor has been processed before
\* max_items is reached, every matching record older than the backfill
\* boundary is eventually fetched (unless max_items ends the run first).
C2_BackfillFetches ==
    \A r \in Recs :
        (/\ pc = "request"
         /\ ev = "backfill"
         /\ r \notin unique_uris
         /\ InWindow(r, [since |-> since_formatted, until |-> None])
         /\ createdAt[r] < until_formatted)
        ~> (r \in unique_uris \/ ev = "max_items")

\* C4 (as claimed): with max_items = N no more than N records are ever
\* accepted by the sink / appended to the results during one start() run.
C4_StreamExactlyN ==
    max_items # None => Len(Accepted) <= max_items

\* C5 (as claimed): with a cutoff (since) supplied, no record created at or
\* before the cutoff is delivered.
C5_CutoffExcluded ==
    since # None => \A i \in 1..Len(Accepted) : createdAt[Accepted[i]] > since


\* C6: when a CLI run has exited - after a stop condition, an interruption or
\* an error - the final flush has run: the queue is empty and every record
\* that was enriched and queued has been written, in order.
C6_FlushedAtExit ==
    st = "EXITED" => queue = <<>> /\ Flatten(written) = enq

\* C6 witness: a run has exited whose last batch was a partial one, written
\* by the final flush.
C6_Witness ==
    /\ st = "EXITED"
    /\ file_format = "json"
    /\ call = [it |-> None, final_flush |-> TRUE]
    /\ written # <<>>
    /\ Len(written[Len(written)]) < batch_size

\* C7: in json mode a sink call flushes exactly when, after appending the
\* record if any, the queue has reached batch_size, or final_flush is set and
\* the queue is not empty; a flush writes the whole queue as one batch and
\* empties it; otherwise nothing is written and the queue is kept.
C7_FlushRule ==
    [][(file_format = "json" /\ SinkCall) =>
         LET q1  == IF call'.it # None THEN Append(queue, call'.it) ELSE queue
             due == Len(q1) >= batch_size \/ (call'.final_flush /\ q1 # <<>>)
         IN  /\ due  => written' = Append(written, q1) /\ queue' = <<>>
             /\ ~due => written' = written /\ queue' = q1]_vars

\* C7 witness: a final flush has written a batch shorter than batch_size.
C7_Witness ==
    /\ file_format = "json"
    /\ call.final_flush
    /\ written # <<>>
    /\ queue = <<>>
    /\ Len(written[Len(written)]) < batch_size

\* C8: after any sequence of sink calls the item counter equals the number of
\* records accepted: one per record, none for a call without record, flush
\* or no flush.
C8_CounterCountsRecords ==
    /\ item_counter = Len(enq)
    /\ item_counter = Len(Flatten(written)) + Len(queue)

\* C8 witness: records were accepted, some flushed and some still queued, and
\* a call without record came last.
C8_Witness ==
    /\ call.it = None
    /\ written # <<>>
    /\ queue # <<>>
    /\ item_counter = Len(Flatten(written)) + Len(queue)

\* Attempts the executor is allowed, and its first delay and backoff factor.
MaxAttempts == IF r_fn = "_retry" THEN r_max ELSE UtilRetries
Delay0      == IF r_fn = "_retry" THEN HqDelay ELSE UtilDelay
Factor      == IF r_fn = "_retry" THEN HqBackoff ELSE UtilBackoff

\* The number of failures before the wrapped function first answers.
Failures == Cardinality({i \in 1..Len(fn) : fn[i] # "ok"})

FailsThenSucceeds == r_pc = "done" /\ Failures < Len(fn)

Retryable == \A i \in 1..Failures : fn[i] = "error"

SuccessAfterBackoff ==
    /\ outcome = "returned"
    /\ value = "response"
    /\ Len(sleeps) = Failures
    /\ \A i \in 1..Len(sleeps) : sleeps[i] = Delay0 * Pow(Factor, i - 1)
    /\ \A i \in 1..(Len(sleeps) - 1) : sleeps[i] <= sleeps[i + 1]

\* C9 (as claimed): when the wrapped call fails k < max attempts times and
\* then succeeds, the executor returns that success, has slept exactly k
\* times, and the i-th un-jittered delay is the initial delay times
\* backoff^(i-1), so the delays never decrease - whatever the failures were.
C9_AsClaimed ==
    FailsThenSucceeds => SuccessAfterBackoff

\* C9 (amended): the same, for failures that are not of the non-retryable
\* class (an account takedown): those the executors are not bound to retry.
C9_RetryThenSuccess ==
    (FailsThenSucceeds /\ Retryable) => SuccessAfterBackoff

\* C9 witness: a call that failed three times, retryably, and then succeeded.
C9_Witness ==
    /\ FailsThenSucceeds
    /\ Retryable
    /\ Failures = 3
    /\ outcome = "returned"

\* C10 (as claimed): when every one of the max attempts fails, either
\* executor ends by raising the exception of the final attempt; it does not
\* return a value in its place.
C10_FinalExceptionPropagates ==
    (r_pc = "done" /\ calls = MaxAttempts /\ Failures = Len(fn))
    => /\ outcome = "raised"
       /\ value = Exc(fn[calls], calls)

\* C11 (as claimed): once the wrapped call has raised an error of the
\* non-retryable class (an account takedown), the executor has ended by
\* raising that error: no sleep follows it and no further attempt is made.
C11_TakedownPropagates ==
    \A n \in 1..calls :
        fn[n] = "AccountTakedown"
        => /\ r_pc # "loop"
           /\ calls = n
           /\ Len(sleeps) = n - 1
           /\ outcome = "raised"
           /\ value = Exc("AccountTakedown", n)

\* The consumer's states in the order a run passes through them.
StateRank ==
    [x \in {"IDLE", "RUNNING", "STOPPING", "STOPPED", "EXITED", "REJECTED"} |->
        CASE x = "IDLE"     -> 0
          [] x = "RUNNING"  -> 1
          [] x = "STOPPING" -> 2
          [] x = "STOPPED"  -> 3
          [] OTHER          -> 4]

Ended == st \in {"STOPPED", "EXITED"}

\* C12: a stop condition that fires in the callback while the consumer is
\* RUNNING takes it to STOPPING in that step, and from there start()
\* eventually returns (STOPPED); the state only ever moves forward in the
\* order IDLE, RUNNING, STOPPING, STOPPED.
C12_StopsInOrder ==
    /\ [][/\ (HandleOp /\ st = "RUNNING" /\ stop_calls' > stop_calls)
             => st' = "STOPPING"
          /\ st' # st => (st' \in DOMAIN StateRank /\ StateRank[st'] > StateRank[st])
          /\ (st = "STOPPING" /\ st' # st) => st' = "STOPPED"]_vars
    /\ (stop_calls > 0) ~> Ended

\* C12 witness: max_items was reached in the callback, the rest of the frame
\* was handled and start() has returned.
C12_Witness ==
    /\ st = "STOPPED"
    /\ escaped = 0
    /\ stop_calls >= 2
    /\ cap_reached(Len(Accepted))

\* C13: however often the subscription is stopped - by max_items and by
\* cutoff_time on the same record, then by start()'s cleanup - the consumer
\* is where one stop puts it: stopping, then stopped, never in error.
C13_StopIdempotent ==
    stop_calls >= 1 => st \in {"STOPPING", "STOPPED", "EXITED"}

\* C13 witness: one record was accepted, both stop conditions fired on it and
\* the cleanup stopped the subscription a third time.
C13_Witness ==
    /\ st = "STOPPED"
    /\ Len(Accepted) = 1
    /\ seqno = 1
    /\ stop_calls = 3

\* C14 (as claimed): no exception leaves the frame handler because a frame
\* did not decode.
C14_DecodeFailureDropped ==
    escaped = 0

\* C15 (as claimed): with cutoff_time set, once the clock has reached the
\* cutoff the stream ends, whatever the firehose delivers afterwards.
C15_EndsAtCutoff ==
    (cutoff_time /\ clock_past) ~> Ended

\* C16: a start() whose cutoff_time is not strictly in the future is refused
\* before the subscription exists: no frame is consumed, no record delivered.
C16_PastCutoffRejected ==
    (cutoff # None /\ cutoff <= Now)
    => /\ st \in {"IDLE", "REJECTED"}
       /\ nframes = 0
       /\ Accepted = <<>>
       /\ enq = <<>>

\* C16 witness: a start() with a cutoff equal to now, and otherwise valid
\* arguments, was refused.
C16_Witness ==
    /\ st = "REJECTED"
    /\ cutoff = Now
    /\ filter_valid
    /\ type_valid

\* C17 (as claimed): a query() given both since and until for which
\* since < until does not hold - since equal to until included - is rejected
\* before any search request: it never gets past its validation.
C17_BoundsRejected ==
    (since # None /\ until # None /\ ~(since < until))
    => pc \in {"validate", "rejected"}

\* C18: a start() given a filter pattern that does not compile or a type
\* filter that is not valid, and a query() given a type filter that is not
\* valid, never get past their argument checks - no subscription, no search
\* request, no record delivered - and a rejected call stays rejected: it is
\* not tried again.
C18_InvalidFilterRejected ==
    /\ []((~type_valid \/ ~filter_valid)
          => /\ st \in {"IDLE", "REJECTED", "UNUSED"}
             /\ pc \in {"validate", "rejected", "unused"}
             /\ nframes = 0
             /\ resp.posts = <<>>
             /\ Accepted = <<>>)
    /\ [][/\ st = "REJECTED" => st' = "REJECTED"
          /\ pc = "rejected" => pc' = "rejected"]_vars

\* C18 witness: a query() with valid bounds was rejected for its type filter.
C18_Witness ==
    /\ pc = "rejected"
    /\ ~type_valid
    /\ ~(since # None /\ until # None /\ since > until)

\* The target was resolved: the record's type refers to one, its address was
\* found, the target post was fetched and so was its author, if it has one.
Resolved ==
    /\ action_type \in {"quote", "repost", "reply", "like"}
    /\ ref_uri # "none"
    /\ target_post = "found"
    /\ (ref_uri = "did" => target_author = "ok")

\* C19: for every enriched record, target_data is non-null exactly when its
\* type is quote, repost, reply or like and the target was resolved; a post
\* or other record has target_data null.
C19_TargetIffResolved ==
    (e_pc = "done" /\ e_result = "enriched")
    => /\ target_data \in {"null", "data"}
       /\ target_data = "data" <=> Resolved
       /\ action_type \in {"post", "other"} => target_data = "null"

\* C19 witness: a like whose target was fetched has been enriched.
C19_Witness ==
    /\ e_pc = "done"
    /\ e_result = "enriched"
    /\ action_type = "like"
    /\ target_data = "data"

\* C20: when a quote, repost, reply or like has no target address, or the
\* fetch of the target post or of its author fails, target resolution gives
\* null and raises nothing: the record, its own lookups done, is enriched.
C20_FailedTargetIsNull ==
    (/\ e_pc = "done"
     /\ action_type \in {"quote", "repost", "reply", "like"}
     /\ own_fetch = "ok"
     /\ ~Resolved)
    => /\ target_data = "null"
       /\ e_result = "enriched"

\* C20 witness: the author of a quoted post could not be fetched; the quote
\* was enriched with a null target.
C20_Witness ==
    /\ e_pc = "done"
    /\ action_type = "quote"
    /\ ref_uri = "did"
    /\ target_post = "found"
    /\ target_author = "error"
    /\ target_data = "null"
    /\ e_result = "enriched"

\* C21 (as claimed): a failure to fetch a record's own author profile or post
\* detail affects that record only: after it the page loop of query() is
\* still running and goes on with the next record.
C21_EnrichFailureSkipsOne ==
    ev = "enrich_error" => pc = "page"

\* C22: the cache holds an entry for a key exactly from the key's first
\* successful fetch on and never loses it: the remote service has answered
\* once for every key that is cached and never for any other, so no lookup
\* after the first successful fetch of a key reaches the service again.
C22_FetchedOnce ==
    \A k \in Keys :
        /\ fetches.author[k] = (IF k \in DOMAIN profile_cache THEN 1 ELSE 0)
        /\ fetches.post[k] = (IF k \in DOMAIN post_cache THEN 1 ELSE 0)

\* C22 witness: a key fetched earlier, and pushed out of the lru_cache by
\* later keys since, was looked up again and served without a remote call.
C22_Witness ==
    /\ last_lookup = "dict"
    /\ Len(lru_post) = LruMaxsize
    /\ \E k \in Keys : fetches.post[k] = 1 /\ lru_post[LruMaxsize] = k
    /\ Cardinality(DOMAIN post_cache) > LruMaxsize

\* C23 (as claimed): the filter accepts an item if and only if the item
\* satisfies every constraint that is set; no pattern, no type set and a
\* link flag of false reject nothing.
C23_AcceptsIffAllSet ==
    passes # "unset" =>
        (passes = "accept" <=>
            /\ type_filter # NoTypes => item_type \in type_filter
            /\ filter_term # NoPattern => has_term(record, filter_term)
            /\ link_filter = "True" => has_link_(collection, action, record))

\* The arguments of the last get_type call are those of the first one.
SameAsFirst ==
    <<collection, action, record>> =
        <<first_call.collection, first_call.action, first_call.record>>

C25_NonCreateIsOther ==
    (item_type # "unset" /\ action # "create") => item_type = "other"

\* C25 witness: the update of a post that quotes another record and answers
\* a third was classified other.
C25_Witness ==
    /\ action = "update"
    /\ collection = "app.bsky.feed.post"
    /\ record.embed = "app.bsky.embed.record"
    /\ record.reply = "ref"
    /\ item_type = "other"

\* C26: a created record of the post collection is a quote when it embeds a
\* record (plain or with media), also when it carries a reply reference;
\* otherwise a reply when its reply reference is non-empty; otherwise a post.
C26_PostPrecedence ==
    (item_type # "unset" /\ action = "create"
        /\ collection = "app.bsky.feed.post") =>
        item_type = IF record.embed \in {"app.bsky.embed.record",
                                         "app.bsky.embed.recordWithMedia"}
                    THEN "quote"
                    ELSE IF record.reply = "ref" THEN "reply"
                    ELSE "post"

\* C26 witness: a created post that embeds a record with media and carries
\* a reply reference was classified quote.
C26_Witness ==
    /\ action = "create"
    /\ collection = "app.bsky.feed.post"
    /\ record.embed = "app.bsky.embed.recordWithMedia"
    /\ record.reply = "ref"
    /\ item_type = "quote"

\* C27: a created record of the repost collection is a repost and one of the
\* like collection a like, whatever the record holds; a created record of
\* any collection other than post, repost and like is other.
C27_CollectionsMapDirectly ==
    (item_type # "unset" /\ action = "create") =>
        /\ collection = "app.bsky.feed.repost" => item_type = "repost"
        /\ collection = "app.bsky.feed.like" => item_type = "like"
        /\ collection \notin {"app.bsky.feed.post", "app.bsky.feed.repost",
                              "app.bsky.feed.like"} => item_type = "other"

\* C27 witness: a created like whose record carries a record embed and a
\* reply reference was classified like.
C27_Witness ==
    /\ action = "create"
    /\ collection = "app.bsky.feed.like"
    /\ record.embed = "app.bsky.embed.record"
    /\ record.reply = "ref"
    /\ item_type = "like"

\* One step of the page loop, seen from the output: the record at hand is
\* put after everything delivered so far if it is new and passes the filter,
\* and nothing else changes what was delivered.
ArrivalStep ==
    IF pc = "page" /\ idx <= Len(resp.posts)
        /\ ev' \notin {"abort", "enrich_error"}
    THEN LET u == resp.posts[idx]
         IN  Accepted' = IF u \notin unique_uris /\ master_filter_hist(u)
                         THEN Append(Accepted, u)
                         ELSE Accepted
    ELSE pc \in {"request", "page"} => Accepted' = Accepted

\* Three one-post pages, cursors on the first two, none on the third, all
\* three records passing the filter, max_items = 3, on a fresh instance, and
\* query() has returned without interruption or failed lookup.
ThreePagesRun ==
    /\ srvPage = 1
    /\ srvCap = 3
    /\ max_items = 3
    /\ since = None
    /\ until = None
    /\ \A r \in 1..3 : master_filter_hist(r)
    /\ ~again
    /\ pc = "returned"
    /\ ev \in {"max_items", "empty", "error"}

C29_QueryTerminates ==
    <>(pc \in {"returned", "rejected"})

\* A step taken after the subscription was told to stop delivers nothing.
NothingAfterStop ==
    st \in {"STOPPING", "STOPPED"} => (Accepted' = Accepted)

\* C30 (as claimed): once a stop has been requested during the processing of
\* a record, no further record is enriched or handed to the sink / results,
\* the remaining operations of the same frame included.
C30_StopBeforeNextRecord ==
    [][NothingAfterStop]_vars

\* C31 (as claimed): query() stops as soon as the number of accepted records
\* reaches max_items: while the page loop is still running (a record of the
\* page or a further request is still to come) fewer than max_items records
\* have been accepted.
C31_StopsAtMax ==
    (pc \in {"request", "page"} /\ max_items # None)
    => Len(Accepted) < max_items

\* C32: filters are applied before enrichment, in stream and in historical
\* mode alike: the enrichment stage, and with it the author and post lookups,
\* has only ever been entered for records the filter accepted; a rejected
\* record causes no remote call.
C32_LookupsOnlyForAccepted ==
    "rejected" \notin looked_up

\* C32 witness: query() has just dropped a record the filter rejected, after
\* enrichment had been entered for an accepted one.
C32_Witness ==
    /\ pc = "page"
    /\ ev = "filtered"
    /\ looked_up = {"accepted"}

oldest_created_at(posts) ==
    CHOOSE t \in {createdAt[posts[i]] : i \in 1..Len(posts)} :
        \A j \in 1..Len(posts) : t <= createdAt[posts[j]]

\* The end of a page whose response carried no cursor (lines 232-236).
BackfillStep ==
    (pc = "page" /\ idx > Len(resp.posts) /\ resp.cursor = None
        /\ pc' = "request")
    => /\ cursor' = None
       /\ until_formatted' = oldest_created_at(resp.posts)
       /\ since_formatted' = since_formatted

C35_CounterIsPerCall ==
    (~is_from_cli /\ ev \in {"accepted", "max_items"})
    => item_counter = Len(results)

\* C36 (as claimed): in json mode, after any sequence of sink calls, the
\* batches written so far followed by the queue are the accepted records in
\* acceptance order (none written twice, dropped or reordered), and no
\* written batch is empty.
C36_BatchesPartitionAccepted ==
    file_format = "json"
    => /\ Flatten(written) \o queue = enq
       /\ \A i \in 1..Len(written) : written[i] # <<>>

\* A step leaves what every delivered record holds as it was.
DeliveredUntouched ==
    \A i \in 1..Len(results) :
        contents(results[i], post_cache') = contents(results[i], post_cache)

\* C37 (as claimed): once an enriched record has been appended to the results
\* list or the batch queue, processing later records never changes its
\* contents, also when a later record resolves to the same cached post.
C37_DeliveredNeverChanges ==
    [][DeliveredUntouched]_vars

\* A step in which query(), in library use and past validation, meets a
\* failure: a page request failed after all retries or the operator
\* interrupted ("abort"), the service refused the request ("error"), or the
\* enrichment of a record raised.
FailureStep ==
    (~is_from_cli /\ pc \in {"request", "page"}
        /\ ev' \in {"abort", "error", "enrich_error"})
    => /\ pc' = "returned"
       /\ results' = results

\* C38: after validation has passed, query() in library mode never raises:
\* on a failed page request, a raising enrichment step or an interruption it
\* stops paging and returns exactly the records accepted before the failure,
\* in their order.
C38_FailureReturnsAccepted ==
    [][FailureStep]_vars

\* C38 witness: query() has returned after the enrichment of a record raised,
\* with the record accepted before it.
C38_Witness ==
    /\ ~is_from_cli
    /\ pc = "returned"
    /\ ev = "enrich_error"
    /\ Len(results) >= 1

\* The place the claim names for each type that refers to a target.
ClaimedLocation ==
    IF action_type \in {"repost", "like"} THEN "subject"
    ELSE IF action_type = "reply" THEN "reply.root"
    ELSE IF record.embed = "app.bsky.embed.recordWithMedia"
    THEN "embed.record.record"
    ELSE "embed.record"

\* C39 (as claimed): the target resolver reads the target's address from
\* subject.uri for repost and like, from embed.record.uri (plain record
\* embed) or embed.record.record.uri (record with media) for quote, and from
\* reply.root.uri for reply; it then fetches the target post and the target's
\* author through the cached fetchers of the run.
C39_TargetResolved ==
    (e_pc = "done" /\ needs_target(action_type)
        /\ ClaimedLocation \in record.has)
    => LET uri == [at |-> ClaimedLocation, auth |-> record.auth]
       IN  /\ uri \in DOMAIN post_cache
           /\ post_cache[uri] = "data"
               => /\ target_data = uri
                  /\ uri \in DOMAIN profile_cache

\* C40: for every pattern of failures and every retries >= 1,
\* historicalQuery._retry calls the wrapped function at most `retries` times
\* and sleeps at most retries - 1 times, never after the final failed
\* attempt; it ends by returning the call's result or by raising, and never
\* returns without a result.
C40_HqRetryBounded ==
    r_fn = "_retry"
    => /\ calls <= r_max
       /\ Len(sleeps) <= r_max - 1
       /\ Len(sleeps) <= calls
       /\ r_pc = "loop" => Len(sleeps) = calls
       /\ r_pc = "done"
           => /\ Len(sleeps) = calls - 1
              /\ \/ outcome = "returned" /\ value = "response"
                 \/ outcome = "raised" /\ value = Exc(fn[calls], calls)

\* C40 witness: with retries = 3 every attempt failed; _retry slept twice and
\* raised after the third call.
C40_Witness ==
    /\ r_fn = "_retry"
    /\ r_max = 3
    /\ r_pc = "done"
    /\ calls = 3
    /\ Len(sleeps) = 2
    /\ outcome = "raised"

====
